---- MODULE Spec2Model ----
(***************************************************************************)
(* Boat_Valve: the Flask application of src/app.py.                        *)
(*                                                                         *)
(* State: APP_DATA (boats per country, the valve history, the two geometry *)
(* caches) and the id allocator NEXT_BOAT_ID.  Operations: the handlers    *)
(* get_map_data, toggle_valve and get_history, and generate_boats with its *)
(* two rejection-sampling loops.                                           *)
(*                                                                         *)
(* Coordinates.  A sampled coordinate is a cell 0..7 of a line that runs   *)
(* from inland (0) across the coast out to open water (7).  round(x, 6)    *)
(* snaps a cell to the 6-decimal grid, here the even cells, so a sampled   *)
(* point and the position stored for the boat can lie on different sides   *)
(* of a boundary.  A geometry is the set of cells it contains.             *)
(***************************************************************************)
EXTENDS Integers, Sequences, FiniteSets, TLC

VARIABLES
    GEOPANDAS_AVAILABLE,   \* import-time flag, src/app.py:11-19
    boats,                 \* APP_DATA["boats"]: <<[country, list]>> in insertion order
    history,               \* APP_DATA["history"]
    buffer_geometries,     \* APP_DATA["buffer_geometries"]: <<[country, geometry]>> as cached
    land_geometries,       \* APP_DATA["land_geometries"]
    NEXT_BOAT_ID,          \* the global id allocator
    now,                   \* the wall clock read by datetime.now
    gen,                   \* the frame of the generate_boats call in progress
    generate_calls,        \* history variable: the country codes generate_boats was called with
    response,              \* the last response a handler returned
    last,                  \* history variable: the last handler and the state it started from
    threads                \* the requests in flight, one frame per server thread

vars == <<GEOPANDAS_AVAILABLE, boats, history, buffer_geometries, land_geometries,
          NEXT_BOAT_ID, now, gen, generate_calls, response, last, threads>>

-----------------------------------------------------------------------------
(* Bounds of the model *)

NumCountries == 2
MaxBoats == 3
MaxHistory == 2
MaxClock == 1
MaxQuotaBoats == 60
MaxLogLen == 3
MaxStamp == 2
NumThreads == 2
MaxRequests == 3
MaxLoads == 3

(* Program constants *)

\* NUM_BOATS_PER_COUNTRY is 50 in the source; the handlers of the model
\* generate this many boats per country so that the store stays small.
NUM_BOATS_PER_COUNTRY == 1
FIRST_BOAT_ID == 301
max_attempts_multiplier == 350
PercentInsideNum == 20
PercentInsideDen == 100

ConfiguredCodes == <<"uk", "croatia", "svg">>
COUNTRY_CONFIG == {ConfiguredCodes[i] : i \in 1..NumCountries}
UnknownCountry == "xx"

-----------------------------------------------------------------------------
(* Geometry *)

SamplePoints == 0..7
LandShape == {0, 1, 2}
BufferShape == {1, 2, 3, 4}

Geom(S) == [isNone |-> FALSE, points |-> S]
EMPTY_GEOMETRY == Geom({})
NoneGeometry == [isNone |-> TRUE, points |-> {}]
Geometries == {Geom(BufferShape), Geom(LandShape), EMPTY_GEOMETRY, NoneGeometry}

is_empty(g) == g.points = {}
\* truth value of a geometry object: None is falsy, a geometry is truthy iff not empty
Truthy(g) == ~g.isNone /\ ~is_empty(g)

\* round(lat, 6), round(lng, 6): the grid point of a sampled cell
Round6(p) == 2 * (p \div 2)

\* a zone check that lets the engine's answer or exception through
ContainsUncaught(gp, p, g, raises) == p \in g.points

\* is_in_zone(lat, lng, buffer_geometry); raises: the containment engine throws
is_in_zone(gp, p, g, raises) ==
    IF ~gp \/ g.isNone \/ is_empty(g) THEN FALSE
    ELSE IF raises THEN FALSE
    ELSE p \in g.points

\* a land check that rejects nothing
NeverOnLand(gp, p, g, raises) == FALSE

is_on_land(gp, p, g, raises) ==
    IF ~gp \/ g.isNone \/ is_empty(g) THEN FALSE
    ELSE IF raises THEN FALSE
    ELSE p \in g.points

\* contains() of a repaired, unioned geometry on a finite point does not throw
EngineRaises == {FALSE}

-----------------------------------------------------------------------------
(* generate_boats *)

\* truncation in place of round()
RoundDown(num, den) == num \div den

\* Python's round(): to the nearest integer, ties to the even one (num/den >= 0)
RoundHalfEven(num, den) ==
    LET q == num \div den
        r == num % den
    IN  IF 2 * r < den THEN q
        ELSE IF 2 * r > den THEN q + 1
        ELSE IF q % 2 = 0 THEN q ELSE q + 1

\* num_inside_target = round(num_boats * percent_inside)
InsideTarget(num_boats) ==
    RoundHalfEven(num_boats * PercentInsideNum, PercentInsideDen)

\* num_outside_target = num_boats - num_inside_target
OutsideTarget(num_boats) == num_boats - InsideTarget(num_boats)

\* a budget of one attempt per boat asked for
UnitBudget(target) == target

\* max_attempts_inside, max_attempts_outside
MaxAttempts(target) == target * max_attempts_multiplier

\* the state of the sea_boxes entry of a region's configuration
SeaBoxStates == {"well_formed", "missing_key", "absent"}

NoFrame ==
    [pc |-> "idle", country_code |-> UnknownCountry, num_boats |-> 0,
     sea_boxes |-> "well_formed",
     buffer_geometry |-> NoneGeometry, land_geometry |-> NoneGeometry,
     buffer_valid |-> FALSE, land_valid |-> FALSE,
     num_inside_target |-> 0, num_outside_target |-> 0,
     max_attempts_inside |-> 0, max_attempts_outside |-> 0,
     attempts_inside |-> 0, attempts_outside |-> 0,
     boats_inside |-> <<>>, boats_outside |-> <<>>,
     lat_lng |-> 0, point_is_in_zone |-> FALSE, point_is_on_land |-> FALSE,
     all_boats |-> <<>>, iterations |-> 0]

\* lines 229-255: the frame when control reaches the first loop, or the early return
GenerateEntry(gp, country_code, num_boats, buffer_geometry, land_geometry, sea_boxes) ==
    LET args == [NoFrame EXCEPT !.country_code = country_code,
                                !.num_boats = num_boats,
                                !.sea_boxes = sea_boxes,
                                !.buffer_geometry = buffer_geometry,
                                !.land_geometry = land_geometry]
    IN  IF country_code \notin COUNTRY_CONFIG \/ sea_boxes = "absent"
        THEN [args EXCEPT !.pc = "returned"]
        ELSE [args EXCEPT
                !.pc = "inside",
                !.buffer_valid = gp /\ Truthy(buffer_geometry),
                !.land_valid = gp /\ Truthy(land_geometry),
                !.num_inside_target = InsideTarget(num_boats),
                !.num_outside_target = OutsideTarget(num_boats),
                !.max_attempts_inside = MaxAttempts(InsideTarget(num_boats)),
                !.max_attempts_outside = MaxAttempts(OutsideTarget(num_boats))]

\* what one loop iteration draws: the box lookup, the point, the valve state
Draws(sea_boxes) ==
    [keyerror : IF sea_boxes = "missing_key" THEN BOOLEAN ELSE {FALSE},
     p : SamplePoints, valveOpen : BOOLEAN, raises : EngineRaises]

\* a boat created with its valve closed whatever was drawn
NewBoatClosed(id, name, p, valveOpen, country_code) ==
    [id |-> id, name |-> name, latlng |-> Round6(p), valveOpen |-> FALSE,
     country |-> country_code]

\* lines 270-272, 288-290: the dict appended for an accepted point
NewBoat(id, name, p, valveOpen, country_code) ==
    [id |-> id, name |-> name, latlng |-> Round6(p), valveOpen |-> valveOpen,
     country |-> country_code]

\* an iteration that leaves the attempt counter alone
NotCounted(attempts) == attempts

\* lines 259, 277: attempts_inside += 1, attempts_outside += 1
Attempted(attempts) == attempts + 1

\* an allocator that hands the same id out again
SameId(nid) == nid

\* lines 273, 291: NEXT_BOAT_ID += 1
NextId(nid) == nid + 1

\* an inside loop that goes on past its target
InsideBudgetOnly(f) == f.attempts_inside < f.max_attempts_inside

\* line 258
InsideCondition(f) ==
    Len(f.boats_inside) < f.num_inside_target /\ f.attempts_inside < f.max_attempts_inside

\* an outside loop that gives up on the inside loop's budget
OutsideOnInsideBudget(f) ==
    Len(f.boats_outside) < f.num_outside_target /\ f.attempts_outside < f.max_attempts_inside

\* line 276
OutsideCondition(f) ==
    Len(f.boats_outside) < f.num_outside_target /\ f.attempts_outside < f.max_attempts_outside

\* an inside loop that, without a usable buffer, accepts by the land check alone
InsideByLandAlone(f, nid, gp, d) ==
    LET f1 == [f EXCEPT !.attempts_inside = Attempted(@)]
        z == IF f.buffer_valid THEN is_in_zone(gp, d.p, f.buffer_geometry, d.raises) ELSE TRUE
        l == IF f.land_valid THEN is_on_land(gp, d.p, f.land_geometry, d.raises) ELSE FALSE
        f2 == [f1 EXCEPT !.lat_lng = d.p, !.point_is_in_zone = z, !.point_is_on_land = l]
    IN  IF d.keyerror THEN [f |-> f1, nid |-> nid]
        ELSE IF z /\ ~l
        THEN [f |-> [f2 EXCEPT !.boats_inside =
                        Append(@, NewBoat(nid, "InZone", d.p, d.valveOpen, f.country_code))],
              nid |-> NextId(nid)]
        ELSE [f |-> f2, nid |-> nid]

\* lines 259-273: one iteration of the inside loop; nid is NEXT_BOAT_ID
InsideIteration(f, nid, gp, d) ==
    LET f1 == [f EXCEPT !.attempts_inside = Attempted(@)]
        z == IF f.buffer_valid THEN is_in_zone(gp, d.p, f.buffer_geometry, d.raises) ELSE FALSE
        l == IF f.land_valid THEN is_on_land(gp, d.p, f.land_geometry, d.raises) ELSE FALSE
        f2 == [f1 EXCEPT !.lat_lng = d.p, !.point_is_in_zone = z, !.point_is_on_land = l]
    IN  IF d.keyerror THEN [f |-> f1, nid |-> nid]
        ELSE IF z /\ ~l
        THEN [f |-> [f2 EXCEPT !.boats_inside =
                        Append(@, NewBoat(nid, "InZone", d.p, d.valveOpen, f.country_code))],
              nid |-> NextId(nid)]
        ELSE [f |-> f2, nid |-> nid]

\* lines 277-291: one iteration of the outside loop
OutsideIteration(f, nid, gp, d) ==
    LET f1 == [f EXCEPT !.attempts_outside = Attempted(@)]
        z == IF f.buffer_valid THEN is_in_zone(gp, d.p, f.buffer_geometry, d.raises) ELSE FALSE
        l == IF f.land_valid THEN is_on_land(gp, d.p, f.land_geometry, d.raises) ELSE FALSE
        f2 == [f1 EXCEPT !.lat_lng = d.p, !.point_is_in_zone = z, !.point_is_on_land = l]
    IN  IF d.keyerror THEN [f |-> f1, nid |-> nid]
        ELSE IF ~z /\ ~l
        THEN [f |-> [f2 EXCEPT !.boats_outside =
                        Append(@, NewBoat(nid, "Plain", d.p, d.valveOpen, f.country_code))],
              nid |-> NextId(nid)]
        ELSE [f |-> f2, nid |-> nid]

\* leaving the inside loop (line 275).  attempts_inside is not read again, and
\* the frame stops carrying it.
InsideExit(f) == [f EXCEPT !.pc = "outside", !.attempts_inside = 0, !.iterations = 0]

\* random.shuffle: every ordering of the list
Shuffles(s) ==
    {t \in [1..Len(s) -> {s[i] : i \in 1..Len(s)}] :
        \A i \in 1..Len(s) : \E j \in 1..Len(s) : t[j] = s[i]}

\* lines 293-299: all_boats = boats_inside + boats_outside, shuffled, returned
\* The frame ends with the call: what stays is the returned list and the two
\* lists it was built from.
GenerateReturn(f, order) ==
    [f EXCEPT !.pc = "returned", !.all_boats = order, !.attempts_outside = 0,
              !.lat_lng = 0, !.point_is_in_zone = FALSE, !.point_is_on_land = FALSE,
              !.iterations = 0]

\* One step of a call in progress, from every frame of S: an iteration of the
\* loop the frame is in, the exit of that loop, or the return.
GenerateMicroStep(g) ==
    IF g.f.pc = "inside"
    THEN IF InsideCondition(g.f)
         THEN {InsideIteration(g.f, g.nid, TRUE, d) : d \in Draws(g.f.sea_boxes)}
         ELSE {[f |-> InsideExit(g.f), nid |-> g.nid]}
    ELSE IF g.f.pc = "outside"
    THEN IF OutsideCondition(g.f)
         THEN {OutsideIteration(g.f, g.nid, TRUE, d) : d \in Draws(g.f.sea_boxes)}
         ELSE {[f |-> GenerateReturn(g.f, order), nid |-> g.nid] :
                  order \in Shuffles(g.f.boats_inside \o g.f.boats_outside)}
    ELSE {g}

RECURSIVE GenerateRun(_, _)
GenerateRun(S, k) ==
    IF S = {} \/ k = 0 THEN S
    ELSE IF k = 1 THEN UNION {GenerateMicroStep(g) : g \in S}
    ELSE GenerateRun(GenerateRun(S, k \div 2), k - (k \div 2))

\* generate_boats run to its return: every (returned list, NEXT_BOAT_ID) it can
\* end with, GEOPANDAS_AVAILABLE being true
generate_boats(country_code, num_boats, buffer_geometry, land_geometry, nid) ==
    LET f0 == GenerateEntry(TRUE, country_code, num_boats, buffer_geometry,
                            land_geometry, "well_formed")
        ends == GenerateRun({[f |-> f0, nid |-> nid]},
                            f0.max_attempts_inside + f0.max_attempts_outside + 2)
    IN  {[all_boats |-> g.f.all_boats, nid |-> g.nid] : g \in ends}

-----------------------------------------------------------------------------
(* generate_boats, one loop iteration per step *)

Idle ==
    /\ gen = NoFrame
    /\ response = [op |-> "none", status |-> 0]
    /\ last = [op |-> "none"]

\* line 476: app.run serves each request on a thread of its own
ThreadIds == 1..NumThreads

\* no request in flight
NoThreads == [t \in ThreadIds |-> [pc |-> "idle"]]

InitStore ==
    /\ threads = NoThreads
    /\ boats = <<>>
    /\ history = <<>>
    /\ buffer_geometries = <<>>
    /\ land_geometries = <<>>
    /\ NEXT_BOAT_ID = FIRST_BOAT_ID
    /\ now = 0
    /\ generate_calls = <<>>

\* the arguments generate_boats is called with
GenArgs ==
    [country_code : {ConfiguredCodes[1]}, num_boats : 0..MaxBoats,
     buffer_geometry : {Geom(BufferShape), EMPTY_GEOMETRY},
     land_geometry : {Geom(LandShape), EMPTY_GEOMETRY},
     sea_boxes : {"well_formed"}]
    \cup
    [country_code : {ConfiguredCodes[1]}, num_boats : 0..MaxBoats,
     buffer_geometry : {Geom(BufferShape)}, land_geometry : {Geom(LandShape)},
     sea_boxes : {"missing_key", "absent"}]
    \cup
    [country_code : {UnknownCountry}, num_boats : {MaxBoats},
     buffer_geometry : {NoneGeometry}, land_geometry : {NoneGeometry},
     sea_boxes : {"well_formed"}]
    \cup
    [country_code : {ConfiguredCodes[1]}, num_boats : {MaxBoats},
     buffer_geometry : {NoneGeometry}, land_geometry : {Geom(LandShape)},
     sea_boxes : {"well_formed"}]

\* History variable of the frame: the iterations the loop in progress has made
Iterated(f) == [f EXCEPT !.iterations = @ + 1]

StoreUnchanged ==
    UNCHANGED <<threads, GEOPANDAS_AVAILABLE, boats, history, buffer_geometries,
                land_geometries, now, response, last>>

\* the call: the frame holds the arguments, nothing is computed yet
GenCall ==
    /\ gen.pc = "idle"
    /\ \E a \in GenArgs :
          /\ gen' = [NoFrame EXCEPT !.pc = "called",
                                    !.country_code = a.country_code,
                                    !.num_boats = a.num_boats,
                                    !.sea_boxes = a.sea_boxes,
                                    !.buffer_geometry = a.buffer_geometry,
                                    !.land_geometry = a.land_geometry]
          /\ generate_calls' = Append(generate_calls, a.country_code)
    /\ UNCHANGED NEXT_BOAT_ID
    /\ StoreUnchanged

\* lines 229-255
GenEnter ==
    /\ gen.pc = "called"
    /\ gen' = GenerateEntry(GEOPANDAS_AVAILABLE, gen.country_code, gen.num_boats,
                            gen.buffer_geometry, gen.land_geometry, gen.sea_boxes)
    /\ UNCHANGED <<NEXT_BOAT_ID, generate_calls>>
    /\ StoreUnchanged

InsideStep ==
    /\ gen.pc = "inside"
    /\ InsideCondition(gen)
    /\ \E d \in Draws(gen.sea_boxes) :
          /\ ~d.keyerror
          /\ LET r == InsideIteration(gen, NEXT_BOAT_ID, GEOPANDAS_AVAILABLE, d)
             IN  gen' = Iterated(r.f) /\ NEXT_BOAT_ID' = r.nid
    /\ UNCHANGED generate_calls
    /\ StoreUnchanged

\* the iteration ends in the KeyError handler (line 264)
InsideKeyError ==
    /\ gen.pc = "inside"
    /\ InsideCondition(gen)
    /\ \E d \in Draws(gen.sea_boxes) :
          /\ d.keyerror
          /\ LET r == InsideIteration(gen, NEXT_BOAT_ID, GEOPANDAS_AVAILABLE, d)
             IN  gen' = Iterated(r.f) /\ NEXT_BOAT_ID' = r.nid
    /\ UNCHANGED generate_calls
    /\ StoreUnchanged

InsideDone ==
    /\ gen.pc = "inside"
    /\ ~InsideCondition(gen)
    /\ gen' = InsideExit(gen)
    /\ UNCHANGED <<NEXT_BOAT_ID, generate_calls>>
    /\ StoreUnchanged

OutsideStep ==
    /\ gen.pc = "outside"
    /\ OutsideCondition(gen)
    /\ \E d \in Draws(gen.sea_boxes) :
          /\ ~d.keyerror
          /\ LET r == OutsideIteration(gen, NEXT_BOAT_ID, GEOPANDAS_AVAILABLE, d)
             IN  gen' = Iterated(r.f) /\ NEXT_BOAT_ID' = r.nid
    /\ UNCHANGED generate_calls
    /\ StoreUnchanged

\* the iteration ends in the KeyError handler (line 282)
OutsideKeyError ==
    /\ gen.pc = "outside"
    /\ OutsideCondition(gen)
    /\ \E d \in Draws(gen.sea_boxes) :
          /\ d.keyerror
          /\ LET r == OutsideIteration(gen, NEXT_BOAT_ID, GEOPANDAS_AVAILABLE, d)
             IN  gen' = Iterated(r.f) /\ NEXT_BOAT_ID' = r.nid
    /\ UNCHANGED generate_calls
    /\ StoreUnchanged

OutsideDone ==
    /\ gen.pc = "outside"
    /\ ~OutsideCondition(gen)
    /\ \E order \in Shuffles(gen.boats_inside \o gen.boats_outside) :
          gen' = GenerateReturn(gen, order)
    /\ UNCHANGED <<NEXT_BOAT_ID, generate_calls>>
    /\ StoreUnchanged

InitGen ==
    /\ GEOPANDAS_AVAILABLE = TRUE
    /\ InitStore
    /\ Idle

NextGen ==
    \/ GenCall
    \/ GenEnter
    \/ InsideStep
    \/ InsideKeyError
    \/ InsideDone
    \/ OutsideStep
    \/ OutsideKeyError
    \/ OutsideDone

SpecGen == InitGen /\ [][NextGen]_vars

-----------------------------------------------------------------------------
(* The quota split of generate_boats alone, for every num_boats up to MaxQuotaBoats *)

InitQuota ==
    /\ GEOPANDAS_AVAILABLE = TRUE
    /\ InitStore
    /\ response = [op |-> "none", status |-> 0]
    /\ last = [op |-> "none"]
    /\ \E n \in 0..MaxQuotaBoats :
          gen = [NoFrame EXCEPT !.pc = "called",
                                !.country_code = ConfiguredCodes[1],
                                !.num_boats = n,
                                !.buffer_geometry = Geom(BufferShape),
                                !.land_geometry = Geom(LandShape)]

NextQuota == GenEnter

SpecQuota == InitQuota /\ [][NextQuota]_vars

-----------------------------------------------------------------------------
(* The geometry caches *)

\* how a load of a shapefile ends: combined geometry, file missing, no valid
\* geometry in the file, exception
LoadOutcomes == {"ok", "missing", "no_valid", "error"}

\* a load that keeps what it had unioned when an exception stopped it
LoadedPartly(outcome, shape) ==
    IF outcome = "ok" THEN Geom(shape)
    ELSE IF outcome = "error" THEN Geom({CHOOSE x \in shape : TRUE})
    ELSE EMPTY_GEOMETRY

\* lines 119-150, 167-197: the geometry a load ends with
Loaded(outcome, shape) == IF outcome = "ok" THEN Geom(shape) ELSE EMPTY_GEOMETRY

\* a lookup that never finds the key
NeverCached(cache, country_code) == FALSE

\* lines 109, 157: country_code in APP_DATA[...]
Cached(cache, country_code) == \E i \in 1..Len(cache) : cache[i].country = country_code

CacheGet(cache, country_code) ==
    cache[CHOOSE i \in 1..Len(cache) : cache[i].country = country_code].geometry

\* a load has an outcome only when the code reaches it
LoadDraws(cache, country_code) ==
    IF country_code \in COUNTRY_CONFIG /\ ~Cached(cache, country_code)
    THEN LoadOutcomes ELSE {"ok"}

\* get_buffer_geometry: the value returned and the cache afterwards
get_buffer_geometry(gp, cache, country_code, outcome) ==
    IF ~gp THEN [value |-> EMPTY_GEOMETRY, cache |-> cache]
    ELSE IF country_code \notin COUNTRY_CONFIG THEN [value |-> EMPTY_GEOMETRY, cache |-> cache]
    ELSE IF Cached(cache, country_code)
    THEN [value |-> CacheGet(cache, country_code), cache |-> cache]
    ELSE [value |-> Loaded(outcome, BufferShape),
          cache |-> Append(cache, [country |-> country_code,
                                   geometry |-> Loaded(outcome, BufferShape)])]

\* get_land_geometry
get_land_geometry(gp, cache, country_code, outcome) ==
    IF ~gp THEN [value |-> EMPTY_GEOMETRY, cache |-> cache]
    ELSE IF country_code \notin COUNTRY_CONFIG THEN [value |-> EMPTY_GEOMETRY, cache |-> cache]
    ELSE IF Cached(cache, country_code)
    THEN [value |-> CacheGet(cache, country_code), cache |-> cache]
    ELSE [value |-> Loaded(outcome, LandShape),
          cache |-> Append(cache, [country |-> country_code,
                                   geometry |-> Loaded(outcome, LandShape)])]

-----------------------------------------------------------------------------
(* The entity store *)

\* a lookup that takes a region with an empty list for a region without entry
HasSomeBoats(store, country_code) ==
    \E i \in 1..Len(store) : store[i].country = country_code /\ store[i].list # <<>>

\* line 376: country_code in APP_DATA["boats"]
HasBoats(store, country_code) == \E i \in 1..Len(store) : store[i].country = country_code

BoatsOf(store, country_code) ==
    store[CHOOSE i \in 1..Len(store) : store[i].country = country_code].list

\* a search that takes any stored boat for the one asked for
MatchesAnyBoat(store, boat_id) ==
    {m \in [c : 1..Len(store), b : 1..NUM_BOATS_PER_COUNTRY] : m.b <= Len(store[m.c].list)}

\* lines 404-408: the first boat with this id, regions in insertion order
Matches(store, boat_id) ==
    {m \in [c : 1..Len(store), b : 1..NUM_BOATS_PER_COUNTRY] :
        /\ m.b <= Len(store[m.c].list)
        /\ store[m.c].list[m.b].id = boat_id}

FirstMatch(store, boat_id) ==
    CHOOSE m \in Matches(store, boat_id) :
        \A o \in Matches(store, boat_id) : m.c < o.c \/ (m.c = o.c /\ m.b <= o.b)

AllBoats(store) ==
    UNION {{store[i].list[j] : j \in 1..Len(store[i].list)} : i \in 1..Len(store)}

-----------------------------------------------------------------------------
(* GET /api/mapdata/<country> *)

\* how the load of a file for display ends (lines 331-347, 350-366)
DisplayOutcomes == {"ok", "FileNotFoundError", "Exception"}

DisplayErrors(kind, outcome) ==
    IF outcome = "ok" THEN <<>>
    ELSE IF outcome = "FileNotFoundError" THEN <<kind \o " file not found">>
    ELSE <<kind \o " display file error">>

SkipWarning == "skipping boat generation: missing/invalid backend geometry"

\* error_messages if error_messages else None
ErrorsOrNone(error_messages) ==
    [null |-> error_messages = <<>>, items |-> error_messages]

\* a gate that asks for the land geometry only
LandOnly(buffer_geometry, land_geometry) ==
    ~land_geometry.isNone /\ ~is_empty(land_geometry)

\* a gate that asks for the buffer geometry only
BufferOnly(buffer_geometry, land_geometry) ==
    ~buffer_geometry.isNone /\ ~is_empty(buffer_geometry)

\* line 373
can_generate_safely(buffer_geometry, land_geometry) ==
    /\ ~buffer_geometry.isNone /\ ~is_empty(buffer_geometry)
    /\ ~land_geometry.isNone /\ ~is_empty(land_geometry)

\* the lists generate_boats can return to get_map_data, per country and per
\* value of NEXT_BOAT_ID at the call
GeneratedFor ==
    [c \in COUNTRY_CONFIG |->
        [i \in 0..(NUM_BOATS_PER_COUNTRY * (NumCountries - 1)) |->
            generate_boats(c, NUM_BOATS_PER_COUNTRY, Geom(BufferShape), Geom(LandShape),
                           FIRST_BOAT_ID + i)]]

MapDataResponse(country, land_outcome, buffer_outcome, boat_list, error_messages) ==
    [op |-> "mapdata", status |-> 200, country |-> country,
     land |-> land_outcome = "ok", buffer |-> buffer_outcome = "ok",
     boats |-> boat_list, errors |-> ErrorsOrNone(error_messages)]

HandlerIdle == gen = NoFrame

\* line 314-315
MapDataUnavailable ==
    /\ HandlerIdle
    /\ ~GEOPANDAS_AVAILABLE
    /\ \E country \in COUNTRY_CONFIG \cup {UnknownCountry} :
          /\ response' = [op |-> "mapdata", status |-> 500, country |-> country]
          /\ last' = [op |-> "mapdata", country |-> country, had_entry |-> FALSE]
    /\ UNCHANGED <<threads, GEOPANDAS_AVAILABLE, boats, history, buffer_geometries, land_geometries,
                   NEXT_BOAT_ID, now, gen, generate_calls>>

\* a handler that makes the entry for the country before it looks the country up
MapDataNotFoundStores ==
    /\ HandlerIdle
    /\ GEOPANDAS_AVAILABLE
    /\ ~HasBoats(boats, UnknownCountry)
    /\ boats' = Append(boats, [country |-> UnknownCountry, list |-> <<>>])
    /\ response' = [op |-> "mapdata", status |-> 404, country |-> UnknownCountry]
    /\ last' = [op |-> "mapdata", country |-> UnknownCountry, had_entry |-> FALSE]
    /\ UNCHANGED <<threads, GEOPANDAS_AVAILABLE, history, buffer_geometries, land_geometries,
                   NEXT_BOAT_ID, now, gen, generate_calls>>

\* lines 317-319
MapDataNotFound ==
    /\ HandlerIdle
    /\ GEOPANDAS_AVAILABLE
    /\ response' = [op |-> "mapdata", status |-> 404, country |-> UnknownCountry]
    /\ last' = [op |-> "mapdata", country |-> UnknownCountry, had_entry |-> FALSE]
    /\ UNCHANGED <<threads, GEOPANDAS_AVAILABLE, boats, history, buffer_geometries, land_geometries,
                   NEXT_BOAT_ID, now, gen, generate_calls>>

\* lines 321-395, the country has no entry in APP_DATA["boats"] and both geometries are usable
MapDataGenerate ==
    /\ HandlerIdle
    /\ GEOPANDAS_AVAILABLE
    /\ \E country \in COUNTRY_CONFIG, dl \in DisplayOutcomes, db \in DisplayOutcomes :
       \E ob \in LoadDraws(buffer_geometries, country),
          ol \in LoadDraws(land_geometries, country) :
          LET B == get_buffer_geometry(GEOPANDAS_AVAILABLE, buffer_geometries, country, ob)
              L == get_land_geometry(GEOPANDAS_AVAILABLE, land_geometries, country, ol)
              error_messages == DisplayErrors("land", dl) \o DisplayErrors("buffer", db)
          IN  /\ ~HasBoats(boats, country)
              /\ can_generate_safely(B.value, L.value)
              /\ buffer_geometries' = B.cache
              /\ land_geometries' = L.cache
              /\ \E r \in GeneratedFor[country][NEXT_BOAT_ID - FIRST_BOAT_ID] :
                    /\ boats' = Append(boats, [country |-> country, list |-> r.all_boats])
                    /\ NEXT_BOAT_ID' = r.nid
                    /\ response' = MapDataResponse(country, dl, db, r.all_boats, error_messages)
              /\ generate_calls' = Append(generate_calls, country)
              /\ last' = [op |-> "mapdata", country |-> country, had_entry |-> FALSE]
    /\ UNCHANGED <<threads, GEOPANDAS_AVAILABLE, history, now, gen>>

\* lines 321-395, no entry and a geometry missing or empty: generation is skipped
MapDataSkip ==
    /\ HandlerIdle
    /\ GEOPANDAS_AVAILABLE
    /\ \E country \in COUNTRY_CONFIG, dl \in DisplayOutcomes, db \in DisplayOutcomes :
       \E ob \in LoadDraws(buffer_geometries, country),
          ol \in LoadDraws(land_geometries, country) :
          LET B == get_buffer_geometry(GEOPANDAS_AVAILABLE, buffer_geometries, country, ob)
              L == get_land_geometry(GEOPANDAS_AVAILABLE, land_geometries, country, ol)
              error_messages == DisplayErrors("land", dl) \o DisplayErrors("buffer", db)
                                \o <<SkipWarning>>
          IN  /\ ~HasBoats(boats, country)
              /\ ~can_generate_safely(B.value, L.value)
              /\ buffer_geometries' = B.cache
              /\ land_geometries' = L.cache
              /\ boats' = Append(boats, [country |-> country, list |-> <<>>])
              /\ response' = MapDataResponse(country, dl, db, <<>>, error_messages)
              /\ last' = [op |-> "mapdata", country |-> country, had_entry |-> FALSE]
    /\ UNCHANGED <<threads, GEOPANDAS_AVAILABLE, history, NEXT_BOAT_ID, now, gen, generate_calls>>

\* lines 321-395, the country already has an entry
MapDataExisting ==
    /\ HandlerIdle
    /\ GEOPANDAS_AVAILABLE
    /\ \E country \in COUNTRY_CONFIG, dl \in DisplayOutcomes, db \in DisplayOutcomes :
       \E ob \in LoadDraws(buffer_geometries, country),
          ol \in LoadDraws(land_geometries, country) :
          LET B == get_buffer_geometry(GEOPANDAS_AVAILABLE, buffer_geometries, country, ob)
              L == get_land_geometry(GEOPANDAS_AVAILABLE, land_geometries, country, ol)
              error_messages == DisplayErrors("land", dl) \o DisplayErrors("buffer", db)
          IN  /\ HasBoats(boats, country)
              /\ buffer_geometries' = B.cache
              /\ land_geometries' = L.cache
              /\ response' = MapDataResponse(country, dl, db, BoatsOf(boats, country),
                                             error_messages)
              /\ last' = [op |-> "mapdata", country |-> country, had_entry |-> TRUE]
    /\ UNCHANGED <<threads, GEOPANDAS_AVAILABLE, boats, history, NEXT_BOAT_ID, now, gen,
                   generate_calls>>

-----------------------------------------------------------------------------
(* POST /api/valve/toggle/<boat_id> *)

\* the ids a client asks for: every id the allocator can hand out and one more
BoatIds == FIRST_BOAT_ID..(FIRST_BOAT_ID + NUM_BOATS_PER_COUNTRY * NumCountries)

\* a handler that opens the valve whatever its state
ForcedOpen(valveOpen) == TRUE

\* line 413: target_boat['valveOpen'] = not target_boat['valveOpen']
ToggledValve(valveOpen) == ~valveOpen

\* a handler that logs closings as well
LogsEveryToggle(new_status) == TRUE

\* line 417: if new_status
LogsOpenEvent(new_status) == new_status

\* a store in which the valve of every stored boat is set
SetEveryValve(store, m, new_status) ==
    [c \in 1..Len(store) |->
        [store[c] EXCEPT !.list = [b \in 1..Len(store[c].list) |->
                                      [store[c].list[b] EXCEPT !.valveOpen = new_status]]]]

\* lines 413-414: the assignment goes to the dict found in the store, slot m
SetValve(store, m, new_status) ==
    [store EXCEPT ![m.c].list[m.b].valveOpen = new_status]

\* line 430
StatusText(in_zone) ==
    IF in_zone THEN "Illegal Disposal (Opened in Zone)" ELSE "Opened Outside Zone"

\* a log entry written without the zone check
LogNoZoneCheck(gp, target_boat, buffer_geometry, raises) == FALSE

\* lines 420-422: the zone check of the log entry
LogInZone(gp, target_boat, buffer_geometry, raises) ==
    IF Truthy(buffer_geometry)
    THEN is_in_zone(gp, target_boat.latlng, buffer_geometry, raises)
    ELSE FALSE

\* lines 426-431
HistoryEntry(target_boat, country_code, in_zone, timestamp) ==
    [boatId |-> target_boat.id, boatName |-> target_boat.name, timestamp |-> timestamp,
     latlng |-> target_boat.latlng, inZone |-> in_zone, status |-> StatusText(in_zone),
     country |-> country_code]

\* a log that puts the new entry in front
LogPrepend(log, history_entry) == <<history_entry>> \o log

\* line 432: APP_DATA["history"].append(history_entry)
LogAppend(log, history_entry) == Append(log, history_entry)

\* History variable: the successful toggle that has just run (the valve state and
\* the log length it started from), and, when the handler before it was a
\* successful toggle of the same boat, what that one started from.
ToggleRecord(before, boat_id, valveOpen, history_len) ==
    LET second == before.op = "toggle" /\ before.status = 200 /\ before.boatId = boat_id
    IN  [op |-> "toggle", status |-> 200, boatId |-> boat_id,
         valveOpen |-> valveOpen, history_len |-> history_len,
         second |-> second,
         pair_valveOpen |-> IF second THEN before.valveOpen ELSE valveOpen,
         pair_history_len |-> IF second THEN before.history_len ELSE history_len]

\* lines 410-411
ToggleNotFound ==
    /\ HandlerIdle
    /\ \E boat_id \in BoatIds :
          /\ Matches(boats, boat_id) = {}
          /\ response' = [op |-> "toggle", status |-> 404, boatId |-> boat_id]
          /\ last' = [op |-> "toggle", status |-> 404, boatId |-> boat_id]
    /\ UNCHANGED <<threads, GEOPANDAS_AVAILABLE, boats, history, buffer_geometries, land_geometries,
                   NEXT_BOAT_ID, now, gen, generate_calls>>

\* lines 404-436, the boat is found
ToggleValve ==
    /\ HandlerIdle
    /\ \E boat_id \in BoatIds, raises \in EngineRaises, timestamp \in now..MaxClock :
          /\ Matches(boats, boat_id) # {}
          /\ \E ob \in LoadDraws(buffer_geometries,
                                 boats[FirstMatch(boats, boat_id).c].country) :
             LET m == FirstMatch(boats, boat_id)
                 target_boat == boats[m.c].list[m.b]
                 country_code == boats[m.c].country
                 new_status == ToggledValve(target_boat.valveOpen)
                 B == get_buffer_geometry(GEOPANDAS_AVAILABLE, buffer_geometries,
                                          country_code, ob)
                 in_zone == LogInZone(GEOPANDAS_AVAILABLE, target_boat, B.value, raises)
             IN  /\ boats' = SetValve(boats, m, new_status)
                 /\ IF LogsOpenEvent(new_status)
                    THEN /\ Len(history) < MaxHistory
                         /\ buffer_geometries' = B.cache
                         /\ now' = timestamp
                         /\ history' = LogAppend(history,
                               HistoryEntry([target_boat EXCEPT !.valveOpen = new_status],
                                            country_code, in_zone, timestamp))
                    ELSE UNCHANGED <<buffer_geometries, now, history>>
                 /\ response' = [op |-> "toggle", status |-> 200, boatId |-> target_boat.id,
                                 valveOpen |-> new_status,
                                 message |-> "Valve status updated successfully."]
                 /\ last' = ToggleRecord(last, boat_id, target_boat.valveOpen, Len(history))
    /\ UNCHANGED <<threads, GEOPANDAS_AVAILABLE, land_geometries, NEXT_BOAT_ID, gen, generate_calls>>

-----------------------------------------------------------------------------
(* GET /api/history *)

\* a sort that puts an entry in front of the entries of its own timestamp
InsertBeforeTies(sorted, x) ==
    LET ahead == {i \in 1..Len(sorted) : sorted[i].timestamp > x.timestamp}
        k == IF ahead = {} THEN 0 ELSE CHOOSE i \in ahead : \A j \in ahead : j <= i
    IN  SubSeq(sorted, 1, k) \o <<x>> \o SubSeq(sorted, k + 1, Len(sorted))

\* sorted(history, key=timestamp, reverse=True): a stable sort, so an entry goes
\* behind every entry whose timestamp is not smaller
InsertDescending(sorted, x) ==
    LET ahead == {i \in 1..Len(sorted) : sorted[i].timestamp >= x.timestamp}
        k == IF ahead = {} THEN 0 ELSE CHOOSE i \in ahead : \A j \in ahead : j <= i
    IN  SubSeq(sorted, 1, k) \o <<x>> \o SubSeq(sorted, k + 1, Len(sorted))

RECURSIVE SortedDescending(_)
SortedDescending(s) ==
    IF s = <<>> THEN <<>>
    ELSE InsertDescending(SortedDescending(SubSeq(s, 1, Len(s) - 1)), s[Len(s)])

GetHistory ==
    /\ HandlerIdle
    /\ response' = [op |-> "history", status |-> 200, body |-> SortedDescending(history)]
    /\ last' = [op |-> "history"]
    /\ UNCHANGED <<threads, GEOPANDAS_AVAILABLE, boats, history, buffer_geometries, land_geometries,
                   NEXT_BOAT_ID, now, gen, generate_calls>>

-----------------------------------------------------------------------------
(* The application: one request at a time *)

Init ==
    /\ GEOPANDAS_AVAILABLE \in BOOLEAN
    /\ InitStore
    /\ Idle

Next ==
    \/ MapDataUnavailable
    \/ MapDataNotFound
    \/ MapDataGenerate
    \/ MapDataSkip
    \/ MapDataExisting
    \/ ToggleNotFound
    \/ ToggleValve
    \/ GetHistory

Spec == Init /\ [][Next]_vars

-----------------------------------------------------------------------------
(* get_history on a log of any order *)

\* the store after two regions got a boat each
TwoBoatStore ==
    <<[country |-> ConfiguredCodes[1],
       list |-> <<NewBoat(FIRST_BOAT_ID, "Plain", 5, TRUE, ConfiguredCodes[1])>>],
      [country |-> ConfiguredCodes[2],
       list |-> <<NewBoat(FIRST_BOAT_ID + 1, "Plain", 6, TRUE, ConfiguredCodes[2])>>]>>

\* the records toggle_valve can have logged for these boats, at any reading of
\* the wall clock (datetime.now is not monotonic)
LogRecords ==
    {HistoryEntry(TwoBoatStore[c].list[1], TwoBoatStore[c].country,
                  LogInZone(TRUE, TwoBoatStore[c].list[1], Geom(BufferShape), FALSE), t) :
        c \in 1..2, t \in 0..MaxStamp}

Logs == UNION {[1..n -> LogRecords] : n \in 0..MaxLogLen}

InitSort ==
    /\ GEOPANDAS_AVAILABLE = TRUE
    /\ threads = NoThreads
    /\ boats = TwoBoatStore
    /\ history \in Logs
    /\ buffer_geometries = <<[country |-> ConfiguredCodes[1], geometry |-> Geom(BufferShape)],
                             [country |-> ConfiguredCodes[2], geometry |-> Geom(BufferShape)]>>
    /\ land_geometries = <<[country |-> ConfiguredCodes[1], geometry |-> Geom(LandShape)],
                           [country |-> ConfiguredCodes[2], geometry |-> Geom(LandShape)]>>
    /\ NEXT_BOAT_ID = FIRST_BOAT_ID + 2
    /\ now = 0
    /\ generate_calls = <<ConfiguredCodes[1], ConfiguredCodes[2]>>
    /\ Idle

NextSort == GetHistory

SpecSort == InitSort /\ [][NextSort]_vars

-----------------------------------------------------------------------------
(* is_in_zone and is_on_land on any point and geometry *)

\* the arguments of a call: without the geometry library the only geometries are
\* None and the dummy sentinel, and there is no engine to throw
ClassifyArgs ==
    {a \in [lat_lng : SamplePoints, geometry : Geometries, raises : BOOLEAN] :
        GEOPANDAS_AVAILABLE \/ (is_empty(a.geometry) /\ ~a.raises)}

InitClassify ==
    /\ GEOPANDAS_AVAILABLE \in BOOLEAN
    /\ InitStore
    /\ gen = NoFrame
    /\ response = [op |-> "none", status |-> 0]
    /\ \E a \in ClassifyArgs :
          last = [op |-> "classify", lat_lng |-> a.lat_lng, geometry |-> a.geometry,
                  raises |-> a.raises]

CallInZone ==
    /\ last.op = "classify"
    /\ response' = [op |-> "is_in_zone",
                    result |-> is_in_zone(GEOPANDAS_AVAILABLE, last.lat_lng, last.geometry,
                                          last.raises)]
    /\ UNCHANGED <<threads, GEOPANDAS_AVAILABLE, boats, history, buffer_geometries, land_geometries,
                   NEXT_BOAT_ID, now, gen, generate_calls, last>>

CallOnLand ==
    /\ last.op = "classify"
    /\ response' = [op |-> "is_on_land",
                    result |-> is_on_land(GEOPANDAS_AVAILABLE, last.lat_lng, last.geometry,
                                          last.raises)]
    /\ UNCHANGED <<threads, GEOPANDAS_AVAILABLE, boats, history, buffer_geometries, land_geometries,
                   NEXT_BOAT_ID, now, gen, generate_calls, last>>

NextClassify ==
    \/ CallInZone
    \/ CallOnLand

SpecClassify == InitClassify /\ [][NextClassify]_vars

-----------------------------------------------------------------------------
(* Properties *)

BoatSlots(store) ==
    {m \in [c : 1..Len(store), b : 1..NUM_BOATS_PER_COUNTRY] : m.b <= Len(store[m.c].list)}

StoreIds(store) == {b.id : b \in AllBoats(store)}

ValveOf(store, boat_id) == (CHOOSE b \in AllBoats(store) : b.id = boat_id).valveOpen

ToggleSucceeded(r) == r.op = "toggle" /\ r.status = 200

\* C1: a successful toggle appends one record, for the toggled boat, exactly when
\* it takes valveOpen from false to true; any other successful toggle leaves the
\* history as it was.
C1_RecordExactlyOnOpening ==
    [][ToggleSucceeded(response') =>
          LET boat_id == response'.boatId
              opened == ~ValveOf(boats, boat_id) /\ ValveOf(boats', boat_id)
          IN  IF opened
              THEN /\ Len(history') = Len(history) + 1
                   /\ SubSeq(history', 1, Len(history)) = history
                   /\ history'[Len(history')].boatId = boat_id
              ELSE history' = history]_vars

\* a boat that has a record (it was opened) has just been closed again
C1_Witness ==
    /\ ToggleSucceeded(response)
    /\ ~response.valveOpen
    /\ \E i \in 1..Len(history) : history[i].boatId = response.boatId

\* C2: after two successful toggles of one boat in a row the boat's valve is
\* what it was before the first, and the history is longer by exactly one record.
C2_TogglePair ==
    (ToggleSucceeded(last) /\ last.second) =>
        /\ ValveOf(boats, last.boatId) = last.pair_valveOpen
        /\ Len(history) = last.pair_history_len + 1

\* the pair started from an open valve: closed, then opened again
C2_Witness == ToggleSucceeded(last) /\ last.second /\ last.pair_valveOpen

\* C3: every boat that enters the store gets an id at or above the allocator's
\* value before the step and below its value after it, no two new boats share an
\* id or take the id of a stored boat, and the allocator moves up by the number
\* of ids handed out.
C3_IdsFreshAndIncreasing ==
    [][LET new == StoreIds(boats') \ StoreIds(boats)
       IN  /\ \A i \in new : NEXT_BOAT_ID <= i /\ i < NEXT_BOAT_ID'
           /\ Cardinality(new) = Cardinality(BoatSlots(boats')) - Cardinality(BoatSlots(boats))
           /\ NEXT_BOAT_ID' = NEXT_BOAT_ID + Cardinality(new)
           /\ StoreIds(boats) \subseteq StoreIds(boats')]_vars

\* two regions hold a boat each
C3_Witness ==
    \E i \in 1..Len(boats), j \in 1..Len(boats) :
        i # j /\ boats[i].list # <<>> /\ boats[j].list # <<>>

C5_AtMostRequested ==
    /\ Len(gen.boats_inside) <= gen.num_inside_target
    /\ Len(gen.boats_outside) <= gen.num_outside_target
    /\ gen.pc = "returned" =>
          /\ Len(gen.all_boats) = Len(gen.boats_inside) + Len(gen.boats_outside)
          /\ Len(gen.all_boats) <= gen.num_boats

\* a call that returned as many boats as were asked for
C5_Witness ==
    gen.pc = "returned" /\ gen.num_boats = MaxBoats /\ Len(gen.all_boats) = MaxBoats

InsideLeaving == gen.pc = "inside" /\ ~InsideCondition(gen)
OutsideLeaving == gen.pc = "outside" /\ ~OutsideCondition(gen)

\* C6, as claimed: each loop stops when its target is met or when target * 500
\* attempts are used up.
C6_Budget500 ==
    /\ InsideLeaving =>
          \/ Len(gen.boats_inside) = gen.num_inside_target
          \/ gen.attempts_inside = gen.num_inside_target * 500
    /\ OutsideLeaving =>
          \/ Len(gen.boats_outside) = gen.num_outside_target
          \/ gen.attempts_outside = gen.num_outside_target * 500

\* C6, amended: each loop goes on while its target is not met and fewer than
\* target * 350 attempts are used, and stops when the target is met or
\* target * 350 attempts are used up.
C6_Budget350 ==
    /\ gen.attempts_inside <= gen.num_inside_target * 350
    /\ gen.attempts_outside <= gen.num_outside_target * 350
    /\ InsideLeaving =>
          \/ Len(gen.boats_inside) = gen.num_inside_target
          \/ gen.attempts_inside = gen.num_inside_target * 350
    /\ OutsideLeaving =>
          \/ Len(gen.boats_outside) = gen.num_outside_target
          \/ gen.attempts_outside = gen.num_outside_target * 350
    /\ (/\ gen.pc = "inside"
        /\ Len(gen.boats_inside) < gen.num_inside_target
        /\ gen.attempts_inside < gen.num_inside_target * 350) => ~InsideLeaving
    /\ (/\ gen.pc = "outside"
        /\ Len(gen.boats_outside) < gen.num_outside_target
        /\ gen.attempts_outside < gen.num_outside_target * 350) => ~OutsideLeaving

\* the inside loop stops short of its target with its 350 attempts used up
C6_Witness ==
    /\ InsideLeaving
    /\ gen.num_inside_target = 1
    /\ gen.boats_inside = <<>>
    /\ gen.attempts_inside = 350

\* C7: every iteration of either loop, the ones that end in the KeyError handler
\* included, uses one attempt, and a loop never makes more iterations than its
\* budget; a call that has not returned can always take its next step.
C7_IterationsBounded ==
    /\ gen.pc = "inside" =>
          /\ gen.iterations = gen.attempts_inside
          /\ gen.iterations <= gen.max_attempts_inside
    /\ gen.pc = "outside" =>
          /\ gen.iterations = gen.attempts_outside
          /\ gen.iterations <= gen.max_attempts_outside
    /\ gen.pc \in {"called", "inside", "outside"} => ENABLED NextGen

\* the outside loop has used its whole budget without accepting a boat, some
\* iterations having ended in the KeyError handler
C7_Witness ==
    /\ OutsideLeaving
    /\ gen.sea_boxes = "missing_key"
    /\ gen.boats_outside = <<>>
    /\ gen.max_attempts_outside > 0
    /\ gen.iterations = gen.max_attempts_outside

IsShuffleOf(t, s) ==
    /\ Len(t) = Len(s)
    /\ \A i \in 1..Len(s) : \E j \in 1..Len(t) : t[j] = s[i]

\* C8: a loop is left short of its target only with its whole budget used; the
\* call then goes on to return, and the returned list holds the boats of both
\* loops.
C8_ShortOnlyWhenExhausted ==
    /\ (InsideLeaving /\ Len(gen.boats_inside) < gen.num_inside_target) =>
          /\ gen.attempts_inside = gen.max_attempts_inside
          /\ ENABLED InsideDone
    /\ (OutsideLeaving /\ Len(gen.boats_outside) < gen.num_outside_target) =>
          /\ gen.attempts_outside = gen.max_attempts_outside
          /\ ENABLED OutsideDone
    /\ gen.pc = "returned" => IsShuffleOf(gen.all_boats, gen.boats_inside \o gen.boats_outside)

\* returned without an inside boat and with every outside boat
C8_Witness ==
    /\ gen.pc = "returned"
    /\ gen.num_inside_target > 0 /\ gen.boats_inside = <<>>
    /\ Len(gen.boats_outside) = gen.num_outside_target
    /\ Len(gen.all_boats) = gen.num_outside_target

\* C9: the inside target is the integer nearest to num_boats / 5, the outside
\* target is the rest, neither is negative, and 50 boats split into 10 and 40.
C9_QuotaSplit ==
    gen.pc = "inside" =>
        /\ gen.num_inside_target + gen.num_outside_target = gen.num_boats
        /\ gen.num_inside_target >= 0 /\ gen.num_outside_target >= 0
        /\ 10 * gen.num_inside_target <= 2 * gen.num_boats + 5
        /\ 10 * gen.num_inside_target >= 2 * gen.num_boats - 5
        /\ gen.num_boats = 50 => gen.num_inside_target = 10 /\ gen.num_outside_target = 40

C9_Witness ==
    gen.pc = "inside" /\ gen.num_boats = 50 /\ gen.num_inside_target = 10

\* a 200 response of get_map_data for a country whose cached buffer geometry is
\* empty and whose cached land geometry is not
EmptyBufferResponse ==
    /\ response.op = "mapdata" /\ response.status = 200
    /\ Cached(buffer_geometries, response.country)
    /\ Cached(land_geometries, response.country)
    /\ is_empty(CacheGet(buffer_geometries, response.country))
    /\ ~is_empty(CacheGet(land_geometries, response.country))

\* C10, as claimed: with the buffer geometry empty and the land geometry loaded,
\* get_map_data runs the generation for the country and returns a non-null errors
\* list.
C10_GeneratesWithoutBuffer ==
    EmptyBufferResponse =>
        /\ \E i \in 1..Len(generate_calls) : generate_calls[i] = response.country
        /\ ~response.errors.null

\* C10, amended: with the buffer geometry empty and the land geometry loaded,
\* get_map_data never runs the generation for the country; it stores and returns
\* the empty list, and the request that finds no entry for the country returns a
\* non-null errors list that carries the skipped-generation warning.
C10_SkipsWithoutBuffer ==
    EmptyBufferResponse =>
        /\ \A i \in 1..Len(generate_calls) : generate_calls[i] # response.country
        /\ response.boats = <<>>
        /\ HasBoats(boats, response.country)
        /\ BoatsOf(boats, response.country) = <<>>
        /\ ~last.had_entry =>
              /\ ~response.errors.null
              /\ \E i \in 1..Len(response.errors.items) : response.errors.items[i] = SkipWarning

C10_Witness == EmptyBufferResponse /\ ~last.had_entry

\* C11: a toggle asked for an id that no stored boat has answers 404 and leaves
\* the boats, the history, both geometry caches and the id allocator as they were.
C11_UnknownIdNotFound ==
    [][(last'.op = "toggle" /\ last'.boatId \notin StoreIds(boats)) =>
          /\ response'.op = "toggle" /\ response'.status = 404
          /\ UNCHANGED <<boats, history, buffer_geometries, land_geometries,
                         NEXT_BOAT_ID>>]_vars

\* an unknown id was refused while the store held a boat and the log a record
C11_Witness ==
    /\ response.op = "toggle" /\ response.status = 404
    /\ last.op = "toggle" /\ last.boatId \notin StoreIds(boats)
    /\ StoreIds(boats) # {}
    /\ history # <<>>

\* C12: a successful toggle negates the stored valveOpen of the boat asked for
\* and returns the new value; the boat's other fields, every other boat and the
\* regions stay as they were.  A step that is not a successful toggle changes no
\* boat that is in the store.
C12_OnlyToggleMutates ==
    [][/\ Len(boats') >= Len(boats)
       /\ \A m \in BoatSlots(boats) :
             LET before == boats[m.c].list[m.b]
                 after == boats'[m.c].list[m.b]
             IN  /\ boats'[m.c].country = boats[m.c].country
                 /\ Len(boats'[m.c].list) = Len(boats[m.c].list)
                 /\ IF ToggleSucceeded(last') /\ before.id = last'.boatId
                    THEN /\ after = [before EXCEPT !.valveOpen = ~before.valveOpen]
                         /\ response'.valveOpen = after.valveOpen
                         /\ response'.boatId = before.id
                    ELSE after = before]_vars

\* two regions hold a boat each and one of the two boats has just been toggled
C12_Witness ==
    /\ ToggleSucceeded(last)
    /\ Cardinality(StoreIds(boats)) = 2
    /\ response.valveOpen = ValveOf(boats, last.boatId)

Orderings(n) == {f \in [1..n -> 1..n] : \A i, j \in 1..n : f[i] = f[j] => i = j}

\* C13: the body get_history returns holds each record of the log exactly once,
\* timestamps descending, records of one timestamp in their order in the log; the
\* log itself is left as it was.
C13_HistorySortedStable ==
    [][response'.op = "history" =>
          /\ history' = history
          /\ Len(response'.body) = Len(history)
          /\ \E f \in Orderings(Len(history)) :
                /\ \A k \in 1..Len(history) : response'.body[k] = history[f[k]]
                /\ \A k, l \in 1..Len(history) :
                      k < l => \/ history[f[k]].timestamp > history[f[l]].timestamp
                               \/ /\ history[f[k]].timestamp = history[f[l]].timestamp
                                  /\ f[k] < f[l]]_vars

\* two different records of one timestamp, then a later one: the later one is
\* returned first and the two keep their order
C13_Witness ==
    /\ response.op = "history"
    /\ Len(history) = 3
    /\ history[1].timestamp = history[2].timestamp
    /\ history[1] # history[2]
    /\ history[3].timestamp > history[1].timestamp
    /\ response.body = <<history[3], history[1], history[2]>>

\* C14: every step leaves the log it found as a prefix of the log it leaves, so
\* no record is removed, moved or rewritten, whatever happens later to the boat
\* the record is about.
C14_LogAppendOnly ==
    [][/\ Len(history') >= Len(history)
       /\ SubSeq(history', 1, Len(history)) = history]_vars

\* the log holds two records, and the boat of the first one, logged open, has
\* been closed since
C14_Witness ==
    /\ Len(history) = 2
    /\ history[1].boatId \in StoreIds(boats)
    /\ ~ValveOf(boats, history[1].boatId)

Memoized(cache, cache_after) ==
    /\ Len(cache_after) >= Len(cache)
    /\ SubSeq(cache_after, 1, Len(cache)) = cache
    /\ \A i, j \in 1..Len(cache_after) :
          cache_after[i].country = cache_after[j].country => i = j

\* C16: for the buffer and for the land geometry of a configured country, calls
\* made one after another load at most once; a call for a country that has an
\* entry returns that entry's geometry and leaves the cache alone, however a load
\* would have ended; and a cached value, loaded or empty, never changes.
C16_LoadedOnce ==
    [][/\ Memoized(buffer_geometries, buffer_geometries')
       /\ Memoized(land_geometries, land_geometries')
       /\ \A i \in 1..Len(buffer_geometries), outcome \in LoadOutcomes :
             get_buffer_geometry(GEOPANDAS_AVAILABLE, buffer_geometries,
                                 buffer_geometries[i].country, outcome)
                = [value |-> buffer_geometries[i].geometry, cache |-> buffer_geometries]
       /\ \A i \in 1..Len(land_geometries), outcome \in LoadOutcomes :
             get_land_geometry(GEOPANDAS_AVAILABLE, land_geometries,
                               land_geometries[i].country, outcome)
                = [value |-> land_geometries[i].geometry, cache |-> land_geometries]]_vars

\* a request for a country served before has run, with an empty sentinel and a
\* loaded geometry both in the buffer cache
C16_Witness ==
    /\ last.op = "mapdata" /\ last.had_entry
    /\ \E j \in 1..Len(buffer_geometries) : buffer_geometries[j].country = last.country
    /\ \E j, k \in 1..Len(buffer_geometries) :
          /\ buffer_geometries[j].geometry = EMPTY_GEOMETRY
          /\ buffer_geometries[k].geometry = Geom(BufferShape)

FailedLoads == LoadOutcomes \ {"ok"}

Uncached(cache) == {c \in COUNTRY_CONFIG : \A i \in 1..Len(cache) : cache[i].country # c}

\* C17: a load that fails, whichever way, returns the empty sentinel and caches
\* it; the handler that asked for the geometry still answers 200; and every entry
\* of either cache is the whole unioned geometry or the empty sentinel.
C17_FailedLoadGivesSentinel ==
    [][/\ \A c \in Uncached(buffer_geometries), outcome \in FailedLoads :
             get_buffer_geometry(TRUE, buffer_geometries, c, outcome)
                = [value |-> EMPTY_GEOMETRY,
                   cache |-> Append(buffer_geometries,
                                    [country |-> c, geometry |-> EMPTY_GEOMETRY])]
       /\ \A c \in Uncached(land_geometries), outcome \in FailedLoads :
             get_land_geometry(TRUE, land_geometries, c, outcome)
                = [value |-> EMPTY_GEOMETRY,
                   cache |-> Append(land_geometries,
                                    [country |-> c, geometry |-> EMPTY_GEOMETRY])]
       /\ \A i \in 1..Len(buffer_geometries') :
             buffer_geometries'[i].geometry \in {Geom(BufferShape), EMPTY_GEOMETRY}
       /\ \A i \in 1..Len(land_geometries') :
             land_geometries'[i].geometry \in {Geom(LandShape), EMPTY_GEOMETRY}
       /\ (\/ Len(buffer_geometries') > Len(buffer_geometries)
           \/ Len(land_geometries') > Len(land_geometries)) => response'.status = 200]_vars

\* a request whose land load failed and whose buffer load succeeded was answered
C17_Witness ==
    /\ response.op = "mapdata" /\ response.status = 200
    /\ ~last.had_entry
    /\ \E i \in 1..Len(land_geometries) :
          /\ land_geometries[i].country = response.country
          /\ land_geometries[i].geometry = EMPTY_GEOMETRY
    /\ \E i \in 1..Len(buffer_geometries) :
          /\ buffer_geometries[i].country = response.country
          /\ buffer_geometries[i].geometry = Geom(BufferShape)

\* C18: is_in_zone and is_on_land answer false for a None or empty geometry,
\* without the geometry library, and when the containment engine throws; otherwise
\* they answer whether the geometry contains the point.
C18_ClassifierTotal ==
    response.op \in {"is_in_zone", "is_on_land"} =>
        IF \/ ~GEOPANDAS_AVAILABLE
           \/ last.geometry = NoneGeometry
           \/ last.geometry.points = {}
           \/ last.raises
        THEN response.result = FALSE
        ELSE response.result = (last.lat_lng \in last.geometry.points)

\* the engine threw on a point the buffer geometry contains
C18_Witness ==
    /\ response.op = "is_in_zone"
    /\ last.raises
    /\ last.geometry = Geom(BufferShape)
    /\ last.lat_lng \in BufferShape
    /\ ~response.result

UnknownRegionStep == last'.op = "mapdata" /\ last'.country \notin COUNTRY_CONFIG

C25_SetCreatedOnce ==
    [][/\ (/\ response'.op = "mapdata" /\ response'.status = 200
           /\ HasBoats(boats, response'.country)) =>
             /\ response'.boats = BoatsOf(boats, response'.country)
             /\ UNCHANGED <<boats, NEXT_BOAT_ID, generate_calls>>
       /\ \A i \in 1..Len(boats) :
             /\ i <= Len(boats')
             /\ boats'[i].country = boats[i].country
             /\ Len(boats'[i].list) = Len(boats[i].list)
             /\ \A j \in 1..Len(boats[i].list) : boats'[i].list[j].id = boats[i].list[j].id
       /\ \A i, j \in 1..Len(boats') : boats'[i].country = boats'[j].country => i = j
       /\ \A i, j \in 1..Len(generate_calls') :
             generate_calls'[i] = generate_calls'[j] => i = j]_vars

\* a region whose stored list is empty has been asked for again, while another
\* region holds a boat
C25_Witness ==
    /\ response.op = "mapdata" /\ response.status = 200
    /\ last.op = "mapdata" /\ last.had_entry
    /\ BoatsOf(boats, response.country) = <<>>
    /\ response.boats = <<>>
    /\ StoreIds(boats) # {}

\* C26: every region with a non-empty stored list has a non-empty buffer geometry
\* and a non-empty land geometry in the caches and was generated; a mapdata
\* request that finds no entry for its region and either geometry empty calls no
\* generation, stores the empty list, leaves the id allocator alone and returns
\* a non-null errors list.
C26_GeneratedWithBothGeometries ==
    [][/\ \A i \in 1..Len(boats') :
             boats'[i].list # <<>> =>
                /\ Cached(buffer_geometries', boats'[i].country)
                /\ Cached(land_geometries', boats'[i].country)
                /\ ~is_empty(CacheGet(buffer_geometries', boats'[i].country))
                /\ ~is_empty(CacheGet(land_geometries', boats'[i].country))
                /\ \E k \in 1..Len(generate_calls') : generate_calls'[k] = boats'[i].country
       /\ (/\ response'.op = "mapdata" /\ response'.status = 200
           /\ ~HasBoats(boats, response'.country)
           /\ \/ is_empty(CacheGet(buffer_geometries', response'.country))
              \/ is_empty(CacheGet(land_geometries', response'.country))) =>
             /\ generate_calls' = generate_calls
             /\ boats' = Append(boats, [country |-> response'.country, list |-> <<>>])
             /\ NEXT_BOAT_ID' = NEXT_BOAT_ID
             /\ response'.boats = <<>>
             /\ ~response'.errors.null]_vars

\* the first request for a region whose land geometry is empty and whose buffer
\* geometry is loaded has been answered, while another region holds a boat
C26_Witness ==
    /\ response.op = "mapdata" /\ response.status = 200
    /\ last.op = "mapdata" /\ ~last.had_entry
    /\ is_empty(CacheGet(land_geometries, response.country))
    /\ ~is_empty(CacheGet(buffer_geometries, response.country))
    /\ BoatsOf(boats, response.country) = <<>>
    /\ StoreIds(boats) # {}

\* a call with inside boats to make and a buffer geometry that is None or empty
NoBufferCall ==
    /\ gen.pc \in {"inside", "outside", "returned"}
    /\ gen.country_code \in COUNTRY_CONFIG
    /\ gen.buffer_geometry.isNone \/ is_empty(gen.buffer_geometry)
    /\ gen.num_inside_target > 0

\* C27: in a call with a buffer geometry that is None or empty and an inside
\* target above zero, the inside loop accepts no boat and is left only with its
\* whole budget used; the list returned holds no inside boat and at most
\* num_outside_target boats.
C27_NoInsideWithoutBuffer ==
    NoBufferCall =>
        /\ gen.boats_inside = <<>>
        /\ InsideLeaving =>
              /\ gen.attempts_inside = gen.max_attempts_inside
              /\ gen.iterations = gen.max_attempts_inside
        /\ gen.pc = "returned" =>
              /\ Len(gen.all_boats) <= gen.num_outside_target
              /\ \A i \in 1..Len(gen.all_boats) : gen.all_boats[i].name # "InZone"

\* such a call has returned every outside boat, the buffer being None
C27_Witness ==
    /\ NoBufferCall
    /\ gen.pc = "returned"
    /\ gen.buffer_geometry.isNone
    /\ Len(gen.all_boats) = gen.num_outside_target
    /\ gen.num_outside_target > 0

-----------------------------------------------------------------------------
(* toggle_valve, requests in flight at the same time *)

\* The handler holds no lock: a request can be scheduled between any two
\* statements of another.  The frame of a request: the id asked for, the store
\* slot of the dict found (target_boat), the value of valveOpen read at line 413
\* and new_status (line 414).
ToggleFrame(pc, boat_id, target_boat, valveOpen, new_status) ==
    [pc |-> pc, boat_id |-> boat_id, target_boat |-> target_boat,
     valveOpen |-> valveOpen, new_status |-> new_status]

\* two regions with a boat each, every valve state
RaceStores ==
    {[TwoBoatStore EXCEPT ![1].list[1].valveOpen = v1, ![2].list[1].valveOpen = v2] :
        v1 \in BOOLEAN, v2 \in BOOLEAN}

\* History variable of the race: the valve states at the start, and per boat the
\* requests that have returned and the writes that took valveOpen from false to
\* true.
RaceRecord(store) ==
    [op |-> "toggle_race", started |-> 0,
     original |-> [i \in BoatIds |-> i \in StoreIds(store) /\ ValveOf(store, i)],
     completed |-> [i \in BoatIds |-> 0],
     opened |-> [i \in BoatIds |-> 0]]

RaceUnchanged == UNCHANGED <<GEOPANDAS_AVAILABLE, land_geometries, NEXT_BOAT_ID, gen,
                             generate_calls>>

\* lines 404-408: the search finds the boat
ToggleSearch ==
    /\ \E t \in ThreadIds, boat_id \in BoatIds :
          /\ threads[t].pc = "idle"
          /\ last.started < MaxRequests
          /\ Matches(boats, boat_id) # {}
          /\ threads' = [threads EXCEPT ![t] =
                ToggleFrame("found", boat_id, FirstMatch(boats, boat_id), FALSE, FALSE)]
          /\ last' = [last EXCEPT !.started = @ + 1]
    /\ UNCHANGED <<boats, history, buffer_geometries, now, response>>
    /\ RaceUnchanged

\* lines 410-411: the search finds nothing
ToggleSearchFails ==
    /\ \E t \in ThreadIds, boat_id \in BoatIds :
          /\ threads[t].pc = "idle"
          /\ Matches(boats, boat_id) = {}
          /\ response' = [op |-> "toggle", status |-> 404, boatId |-> boat_id]
    /\ UNCHANGED <<boats, history, buffer_geometries, now, threads, last>>
    /\ RaceUnchanged

\* line 413, right-hand side: target_boat['valveOpen'] is read
ToggleReadValve ==
    /\ \E t \in ThreadIds :
          /\ threads[t].pc = "found"
          /\ LET m == threads[t].target_boat
             IN  threads' = [threads EXCEPT ![t].pc = "read",
                                            ![t].valveOpen = boats[m.c].list[m.b].valveOpen]
    /\ UNCHANGED <<boats, history, buffer_geometries, now, response, last>>
    /\ RaceUnchanged

\* line 413, the assignment: the negation of the value read is stored
ToggleWriteValve ==
    /\ \E t \in ThreadIds :
          /\ threads[t].pc = "read"
          /\ LET m == threads[t].target_boat
                 written == ToggledValve(threads[t].valveOpen)
             IN  /\ boats' = SetValve(boats, m, written)
                 /\ last' = IF ~boats[m.c].list[m.b].valveOpen /\ written
                            THEN [last EXCEPT !.opened[threads[t].boat_id] = @ + 1]
                            ELSE last
          /\ threads' = [threads EXCEPT ![t].pc = "written"]
    /\ UNCHANGED <<history, buffer_geometries, now, response>>
    /\ RaceUnchanged

\* line 414: new_status = target_boat['valveOpen']
ToggleReadStatus ==
    /\ \E t \in ThreadIds :
          /\ threads[t].pc = "written"
          /\ LET m == threads[t].target_boat
             IN  threads' = [threads EXCEPT ![t].pc = "status",
                                            ![t].new_status = boats[m.c].list[m.b].valveOpen]
    /\ UNCHANGED <<boats, history, buffer_geometries, now, response, last>>
    /\ RaceUnchanged

\* lines 417-433: the log entry of an opening
ToggleLogEvent ==
    /\ \E t \in ThreadIds, raises \in EngineRaises, timestamp \in now..MaxClock :
          /\ threads[t].pc = "status"
          /\ LET m == threads[t].target_boat
                 target_boat == boats[m.c].list[m.b]
                 country_code == boats[m.c].country
                 B == get_buffer_geometry(GEOPANDAS_AVAILABLE, buffer_geometries,
                                          country_code, "ok")
                 in_zone == LogInZone(GEOPANDAS_AVAILABLE, target_boat, B.value, raises)
             IN  IF LogsOpenEvent(threads[t].new_status)
                 THEN /\ buffer_geometries' = B.cache
                      /\ now' = timestamp
                      /\ history' = LogAppend(history,
                            HistoryEntry(target_boat, country_code, in_zone, timestamp))
                 ELSE UNCHANGED <<buffer_geometries, now, history>>
          /\ threads' = [threads EXCEPT ![t].pc = "logged"]
    /\ UNCHANGED <<boats, response, last>>
    /\ RaceUnchanged

\* lines 435-436: the response reads valveOpen once more
ToggleRespond ==
    /\ \E t \in ThreadIds :
          /\ threads[t].pc = "logged"
          /\ LET m == threads[t].target_boat
             IN  response' = [op |-> "toggle", status |-> 200,
                              boatId |-> boats[m.c].list[m.b].id,
                              valveOpen |-> boats[m.c].list[m.b].valveOpen,
                              message |-> "Valve status updated successfully."]
          /\ last' = [last EXCEPT !.completed[threads[t].boat_id] = @ + 1]
          /\ threads' = [threads EXCEPT ![t] = [pc |-> "idle"]]
    /\ UNCHANGED <<boats, history, buffer_geometries, now>>
    /\ RaceUnchanged

InitToggleRace ==
    /\ GEOPANDAS_AVAILABLE = TRUE
    /\ threads = NoThreads
    /\ boats \in RaceStores
    /\ history = <<>>
    /\ buffer_geometries = <<[country |-> ConfiguredCodes[1], geometry |-> Geom(BufferShape)],
                             [country |-> ConfiguredCodes[2], geometry |-> Geom(BufferShape)]>>
    /\ land_geometries = <<[country |-> ConfiguredCodes[1], geometry |-> Geom(LandShape)],
                           [country |-> ConfiguredCodes[2], geometry |-> Geom(LandShape)]>>
    /\ NEXT_BOAT_ID = FIRST_BOAT_ID + 2
    /\ now = 0
    /\ generate_calls = <<ConfiguredCodes[1], ConfiguredCodes[2]>>
    /\ gen = NoFrame
    /\ response = [op |-> "none", status |-> 0]
    /\ last = RaceRecord(boats)

NextToggleRace ==
    \/ ToggleSearch
    \/ ToggleSearchFails
    \/ ToggleReadValve
    \/ ToggleWriteValve
    \/ ToggleReadStatus
    \/ ToggleLogEvent
    \/ ToggleRespond

SpecToggleRace == InitToggleRace /\ [][NextToggleRace]_vars

\* no request for the boat is between its search and its response
NoToggleInFlight(boat_id) ==
    \A t \in ThreadIds : threads[t].pc = "idle" \/ threads[t].boat_id # boat_id

\* v negated k times
Flipped(v, k) == IF k % 2 = 0 THEN v ELSE ~v

RecordsOf(boat_id) == {i \in 1..Len(history) : history[i].boatId = boat_id}

\* C22: whatever the interleaving of the toggle requests for a boat, once k of
\* them have returned and none is in flight the stored valveOpen is the original
\* value negated k times, and the log holds one record of the boat for each write
\* that took its valveOpen from false to true.
C22_NoLostUpdate ==
    \A boat_id \in StoreIds(boats) :
        NoToggleInFlight(boat_id) =>
            /\ ValveOf(boats, boat_id)
                  = Flipped(last.original[boat_id], last.completed[boat_id])
            /\ Cardinality(RecordsOf(boat_id)) = last.opened[boat_id]

-----------------------------------------------------------------------------
(* get_buffer_geometry and get_land_geometry, calls in flight at the same time *)

GeometryKinds == {"buffer", "land"}

CacheOf(kind) == IF kind = "buffer" THEN buffer_geometries ELSE land_geometries

ShapeOf(kind) == IF kind = "buffer" THEN BufferShape ELSE LandShape

\* a cache that keeps every result stored under a key
CacheKeepEvery(cache, country_code, geometry) ==
    Append(cache, [country |-> country_code, geometry |-> geometry])

\* lines 124, 144, 149, 171, 191, 196: APP_DATA[...][country_code] = geometry, a
\* dict assignment: the entry of the key is replaced when there is one
CachePut(cache, country_code, geometry) ==
    IF Cached(cache, country_code)
    THEN [i \in 1..Len(cache) |->
             IF cache[i].country = country_code
             THEN [country |-> country_code, geometry |-> geometry]
             ELSE cache[i]]
    ELSE Append(cache, [country |-> country_code, geometry |-> geometry])

LoadFrame(pc, kind, country_code, geometry) ==
    [pc |-> pc, kind |-> kind, country_code |-> country_code, geometry |-> geometry]

GeometryResponse(kind, country_code, value, hit) ==
    [op |-> "get_" \o kind \o "_geometry", status |-> 200, kind |-> kind,
     country |-> country_code, value |-> value, hit |-> hit]

LoadUnchanged == UNCHANGED <<GEOPANDAS_AVAILABLE, boats, history, NEXT_BOAT_ID, now, gen,
                             generate_calls>>

\* lines 106-107, 154-155: no library or no such country, nothing is loaded
LoadRefused ==
    /\ \E t \in ThreadIds, kind \in GeometryKinds,
          country_code \in COUNTRY_CONFIG \cup {UnknownCountry} :
          /\ threads[t].pc = "idle"
          /\ ~GEOPANDAS_AVAILABLE \/ country_code \notin COUNTRY_CONFIG
          /\ response' = GeometryResponse(kind, country_code, EMPTY_GEOMETRY, FALSE)
    /\ UNCHANGED <<buffer_geometries, land_geometries, threads, last>>
    /\ LoadUnchanged

\* lines 109-110, 157-158: the key is in the cache
LoadHit ==
    /\ \E t \in ThreadIds, kind \in GeometryKinds, country_code \in COUNTRY_CONFIG :
          /\ threads[t].pc = "idle"
          /\ GEOPANDAS_AVAILABLE
          /\ Cached(CacheOf(kind), country_code)
          /\ response' = GeometryResponse(kind, country_code,
                                          CacheGet(CacheOf(kind), country_code), TRUE)
    /\ UNCHANGED <<buffer_geometries, land_geometries, threads, last>>
    /\ LoadUnchanged

\* lines 109, 157: the key is not in the cache, the call goes on to load
LoadMiss ==
    /\ \E t \in ThreadIds, kind \in GeometryKinds, country_code \in COUNTRY_CONFIG :
          /\ threads[t].pc = "idle"
          /\ GEOPANDAS_AVAILABLE
          /\ last.started < MaxLoads
          /\ ~Cached(CacheOf(kind), country_code)
          /\ threads' = [threads EXCEPT ![t] =
                            LoadFrame("loading", kind, country_code, EMPTY_GEOMETRY)]
          /\ last' = [last EXCEPT !.started = @ + 1]
    /\ UNCHANGED <<buffer_geometries, land_geometries, response>>
    /\ LoadUnchanged

\* lines 119-142, 167-189: the file is read and combined, or the load fails
LoadFile ==
    /\ \E t \in ThreadIds, outcome \in LoadOutcomes :
          /\ threads[t].pc = "loading"
          /\ threads' = [threads EXCEPT ![t].pc = "loaded",
                            ![t].geometry = Loaded(outcome, ShapeOf(threads[t].kind))]
          /\ last' = [last EXCEPT !.loads = @ \cup
                        {[kind |-> threads[t].kind, country |-> threads[t].country_code,
                          geometry |-> Loaded(outcome, ShapeOf(threads[t].kind))]}]
    /\ UNCHANGED <<buffer_geometries, land_geometries, response>>
    /\ LoadUnchanged

\* lines 124, 144, 149, 171, 191, 196: the result is stored under the key
LoadStore ==
    /\ \E t \in ThreadIds :
          /\ threads[t].pc = "loaded"
          /\ IF threads[t].kind = "buffer"
             THEN /\ buffer_geometries' = CachePut(buffer_geometries,
                                                   threads[t].country_code,
                                                   threads[t].geometry)
                  /\ UNCHANGED land_geometries
             ELSE /\ land_geometries' = CachePut(land_geometries,
                                                 threads[t].country_code,
                                                 threads[t].geometry)
                  /\ UNCHANGED buffer_geometries
          /\ threads' = [threads EXCEPT ![t].pc = "stored"]
    /\ UNCHANGED <<response, last>>
    /\ LoadUnchanged

\* lines 125, 145, 150, 172, 192, 197: the call returns what it loaded
LoadReturn ==
    /\ \E t \in ThreadIds :
          /\ threads[t].pc = "stored"
          /\ response' = GeometryResponse(threads[t].kind, threads[t].country_code,
                                          threads[t].geometry, FALSE)
          /\ threads' = [threads EXCEPT ![t] = [pc |-> "idle"]]
    /\ UNCHANGED <<buffer_geometries, land_geometries, last>>
    /\ LoadUnchanged

InitLoadRace ==
    /\ GEOPANDAS_AVAILABLE \in BOOLEAN
    /\ InitStore
    /\ gen = NoFrame
    /\ response = [op |-> "none", status |-> 0]
    /\ last = [op |-> "load_race", started |-> 0, loads |-> {}]

NextLoadRace ==
    \/ LoadRefused
    \/ LoadHit
    \/ LoadMiss
    \/ LoadFile
    \/ LoadStore
    \/ LoadReturn

SpecLoadRace == InitLoadRace /\ [][NextLoadRace]_vars

\* no call for the key is between its cache lookup and its return
NoLoadInFlight(ts, kind, country_code) ==
    \A t \in ThreadIds :
        ts[t].pc = "idle" \/ ts[t].kind # kind \/ ts[t].country_code # country_code

\* the results the loads for the key have ended with
LoadedFor(record, kind, country_code) ==
    {l.geometry : l \in {x \in record.loads : x.kind = kind /\ x.country = country_code}}

OneEntryPerKey(cache) ==
    \A i, j \in 1..Len(cache) : cache[i].country = cache[j].country => i = j

\* once the calls for a key have returned, the cache holds one result of theirs
\* under the key; from then on a call for the key returns that value, no call
\* loads, and the entry stays as it is
WinnerCached(kind, country_code, cache, cache_after) ==
    /\ OneEntryPerKey(cache_after)
    /\ (NoLoadInFlight(threads', kind, country_code)
        /\ LoadedFor(last', kind, country_code) # {}) =>
          /\ Cached(cache_after, country_code)
          /\ CacheGet(cache_after, country_code) \in LoadedFor(last', kind, country_code)
    /\ (NoLoadInFlight(threads, kind, country_code) /\ Cached(cache, country_code)) =>
          /\ NoLoadInFlight(threads', kind, country_code)
          /\ Cached(cache_after, country_code)
          /\ CacheGet(cache_after, country_code) = CacheGet(cache, country_code)
          /\ (/\ response' # response
              /\ response'.kind = kind /\ response'.country = country_code) =>
                response'.value = CacheGet(cache, country_code)

\* C23: calls for one uncached geometry that are in flight together can each
\* load it; once they have returned, the cache holds exactly one of the loaded
\* results under the key, and every call for the key that starts after that
\* returns this value, loads nothing and leaves the entry as it is.
C23_OneCachedWinner ==
    [][\A country_code \in COUNTRY_CONFIG :
          /\ WinnerCached("buffer", country_code, buffer_geometries, buffer_geometries')
          /\ WinnerCached("land", country_code, land_geometries, land_geometries')]_vars

\* two loads of one buffer geometry ended differently, both calls have returned
\* and a later call has been served from the cache
C23_Witness ==
    /\ \E country_code \in COUNTRY_CONFIG :
          /\ Cardinality(LoadedFor(last, "buffer", country_code)) = 2
          /\ NoLoadInFlight(threads, "buffer", country_code)
          /\ response.op = "get_buffer_geometry"
          /\ response.country = country_code
          /\ response.hit

-----------------------------------------------------------------------------
(* get_map_data, requests in flight at the same time *)

\* The handler and generate_boats hold no lock.  The frame of a request: the
\* country asked for, error_messages, and the frame of its generate_boats call.
MapFrame(pc, country_code, error_messages, f) ==
    [pc |-> pc, country_code |-> country_code, error_messages |-> error_messages, f |-> f]

\* line 379, 385: APP_DATA["boats"][country_code] = ..., a dict assignment: the
\* list of the key is replaced when there is one
StorePut(store, country_code, boat_list) ==
    IF HasBoats(store, country_code)
    THEN [i \in 1..Len(store) |->
             IF store[i].country = country_code
             THEN [country |-> country_code, list |-> boat_list]
             ELSE store[i]]
    ELSE Append(store, [country |-> country_code, list |-> boat_list])

\* the points of the sea boxes that are neither on land nor in the buffer: the
\* requests of this specification sample open water, so that every iteration
\* of the outside loop accepts its point
OpenWater == SamplePoints \ (BufferShape \cup LandShape)

RaceDraws ==
    {d \in Draws("well_formed") : d.p \in OpenWater}

\* the ids of the lists a generate_boats frame holds
FrameIds(f) ==
    {f.boats_inside[i].id : i \in 1..Len(f.boats_inside)}
    \cup {f.boats_outside[i].id : i \in 1..Len(f.boats_outside)}

ListIds(boat_list) == {boat_list[i].id : i \in 1..Len(boat_list)}

MapRaceUnchanged ==
    UNCHANGED <<GEOPANDAS_AVAILABLE, history, buffer_geometries, land_geometries, now, gen>>

\* lines 369-376 for a country that has an entry (line 386)
MapCheckExisting ==
    /\ \E t \in ThreadIds, country_code \in COUNTRY_CONFIG :
          /\ threads[t].pc = "idle"
          /\ last.started < MaxRequests
          /\ HasBoats(boats, country_code)
          /\ threads' = [threads EXCEPT ![t] =
                            MapFrame("retrieve", country_code, <<>>, NoFrame)]
          /\ last' = [last EXCEPT !.started = @ + 1]
    /\ UNCHANGED <<boats, NEXT_BOAT_ID, generate_calls, response>>
    /\ MapRaceUnchanged

\* lines 369-378 for a country that has no entry: generate_boats is called
\* (lines 229-255) or, without usable geometries, skipped (lines 382-384)
MapCheckAbsent ==
    /\ \E t \in ThreadIds, country_code \in COUNTRY_CONFIG :
          LET B == get_buffer_geometry(GEOPANDAS_AVAILABLE, buffer_geometries,
                                       country_code, "ok")
              L == get_land_geometry(GEOPANDAS_AVAILABLE, land_geometries,
                                     country_code, "ok")
          IN  /\ threads[t].pc = "idle"
              /\ last.started < MaxRequests
              /\ ~HasBoats(boats, country_code)
              /\ B.cache = buffer_geometries /\ L.cache = land_geometries
              /\ IF can_generate_safely(B.value, L.value)
                 THEN /\ threads' = [threads EXCEPT ![t] =
                            MapFrame("generate", country_code, <<>>,
                                     GenerateEntry(GEOPANDAS_AVAILABLE, country_code,
                                                   NUM_BOATS_PER_COUNTRY, B.value, L.value,
                                                   "well_formed"))]
                      /\ generate_calls' = Append(generate_calls, country_code)
                 ELSE /\ threads' = [threads EXCEPT ![t] =
                            MapFrame("skip", country_code, <<SkipWarning>>, NoFrame)]
                      /\ UNCHANGED generate_calls
              /\ last' = [last EXCEPT !.started = @ + 1]
    /\ UNCHANGED <<boats, NEXT_BOAT_ID, response>>
    /\ MapRaceUnchanged

\* lines 259-272, 277-290: one loop iteration up to the append; the dict of an
\* accepted point takes the value NEXT_BOAT_ID has at that moment
MapIterate ==
    /\ \E t \in ThreadIds, d \in RaceDraws :
          /\ threads[t].pc = "generate"
          /\ LET f == threads[t].f
                 r == IF f.pc = "inside"
                      THEN InsideIteration(f, NEXT_BOAT_ID, GEOPANDAS_AVAILABLE, d)
                      ELSE OutsideIteration(f, NEXT_BOAT_ID, GEOPANDAS_AVAILABLE, d)
                 accepted == Len(r.f.boats_inside) + Len(r.f.boats_outside)
                                > Len(f.boats_inside) + Len(f.boats_outside)
             IN  /\ \/ f.pc = "inside" /\ InsideCondition(f)
                    \/ f.pc = "outside" /\ OutsideCondition(f)
                 /\ threads' = [threads EXCEPT ![t].f = r.f,
                                   ![t].pc = IF accepted THEN "increment" ELSE "generate"]
                 /\ last' = IF accepted
                            THEN [last EXCEPT !.created = Append(@, NEXT_BOAT_ID)]
                            ELSE last
    /\ UNCHANGED <<boats, NEXT_BOAT_ID, generate_calls, response>>
    /\ MapRaceUnchanged

\* lines 273, 291: NEXT_BOAT_ID += 1
MapIncrement ==
    /\ \E t \in ThreadIds :
          /\ threads[t].pc = "increment"
          /\ NEXT_BOAT_ID' = NextId(NEXT_BOAT_ID)
          /\ threads' = [threads EXCEPT ![t].pc = "generate"]
    /\ UNCHANGED <<boats, generate_calls, response, last>>
    /\ MapRaceUnchanged

\* lines 258, 275: the inside loop is left
MapInsideDone ==
    /\ \E t \in ThreadIds :
          /\ threads[t].pc = "generate"
          /\ threads[t].f.pc = "inside"
          /\ ~InsideCondition(threads[t].f)
          /\ threads' = [threads EXCEPT ![t].f = InsideExit(@)]
    /\ UNCHANGED <<boats, NEXT_BOAT_ID, generate_calls, response, last>>
    /\ MapRaceUnchanged

\* lines 276, 293-299: the outside loop is left and the shuffled list returned
MapOutsideDone ==
    /\ \E t \in ThreadIds :
          /\ threads[t].pc = "generate"
          /\ threads[t].f.pc = "outside"
          /\ ~OutsideCondition(threads[t].f)
          /\ \E order \in Shuffles(threads[t].f.boats_inside \o threads[t].f.boats_outside) :
                threads' = [threads EXCEPT ![t].f = GenerateReturn(@, order),
                                           ![t].pc = "store"]
    /\ UNCHANGED <<boats, NEXT_BOAT_ID, generate_calls, response, last>>
    /\ MapRaceUnchanged

\* line 379: the returned list is stored under the country
MapStore ==
    /\ \E t \in ThreadIds :
          /\ threads[t].pc = "store"
          /\ boats' = StorePut(boats, threads[t].country_code, threads[t].f.all_boats)
          /\ last' = IF HasBoats(boats, threads[t].country_code)
                     THEN [last EXCEPT !.retired =
                              @ \cup ListIds(BoatsOf(boats, threads[t].country_code))]
                     ELSE last
          /\ threads' = [threads EXCEPT ![t].pc = "retrieve", ![t].f = NoFrame]
    /\ UNCHANGED <<NEXT_BOAT_ID, generate_calls, response>>
    /\ MapRaceUnchanged

\* line 385: the empty list is stored under the country
MapStoreEmpty ==
    /\ \E t \in ThreadIds :
          /\ threads[t].pc = "skip"
          /\ boats' = StorePut(boats, threads[t].country_code, <<>>)
          /\ last' = IF HasBoats(boats, threads[t].country_code)
                     THEN [last EXCEPT !.retired =
                              @ \cup ListIds(BoatsOf(boats, threads[t].country_code))]
                     ELSE last
          /\ threads' = [threads EXCEPT ![t].pc = "retrieve"]
    /\ UNCHANGED <<NEXT_BOAT_ID, generate_calls, response>>
    /\ MapRaceUnchanged

\* lines 389-395: the stored list is read and returned
MapRespond ==
    /\ \E t \in ThreadIds :
          /\ threads[t].pc = "retrieve"
          /\ LET boat_list == BoatsOf(boats, threads[t].country_code)
             IN  /\ response' = MapDataResponse(threads[t].country_code, "ok", "ok",
                                                boat_list, threads[t].error_messages)
                 /\ last' = [last EXCEPT !.returned = @ \cup
                               {[id |-> i, country |-> threads[t].country_code] :
                                   i \in ListIds(boat_list)}]
          /\ threads' = [threads EXCEPT ![t] = [pc |-> "idle"]]
    /\ UNCHANGED <<boats, NEXT_BOAT_ID, generate_calls>>
    /\ MapRaceUnchanged

\* the geometries of every country are in the caches (the preload of lines
\* 456-463); the buffer of the last country may have failed to load
InitMapRace ==
    /\ GEOPANDAS_AVAILABLE = TRUE
    /\ threads = NoThreads
    /\ boats = <<>>
    /\ history = <<>>
    /\ \E g \in {Geom(BufferShape), EMPTY_GEOMETRY} :
          buffer_geometries =
             [i \in 1..NumCountries |->
                 [country |-> ConfiguredCodes[i],
                  geometry |-> IF i = NumCountries THEN g ELSE Geom(BufferShape)]]
    /\ land_geometries =
          [i \in 1..NumCountries |->
              [country |-> ConfiguredCodes[i], geometry |-> Geom(LandShape)]]
    /\ NEXT_BOAT_ID = FIRST_BOAT_ID
    /\ now = 0
    /\ generate_calls = <<>>
    /\ gen = NoFrame
    /\ response = [op |-> "none", status |-> 0]
    /\ last = [op |-> "map_race", started |-> 0, created |-> <<>>, returned |-> {},
               retired |-> {}]

NextMapRace ==
    \/ MapCheckExisting
    \/ MapCheckAbsent
    \/ MapIterate
    \/ MapIncrement
    \/ MapInsideDone
    \/ MapOutsideDone
    \/ MapStore
    \/ MapStoreEmpty
    \/ MapRespond

SpecMapRace == InitMapRace /\ [][NextMapRace]_vars

\* C24: no two boats created by generate_boats calls, in flight together or one
\* after another, for one country or for several, get the same id.
C24_NoSharedId ==
    \A i, j \in 1..Len(last.created) : last.created[i] = last.created[j] => i = j

\* C28: every boat id a mapdata response has returned stays resolvable: the
\* search of toggle_valve finds exactly one boat with the id, in the country the
\* response was for.
C28_ReturnedIdsResolvable ==
    \A r \in last.returned :
        /\ Cardinality(Matches(boats, r.id)) = 1
        /\ boats[FirstMatch(boats, r.id).c].country = r.country

\* C21: once the list of a country has been replaced by a newly generated one,
\* the id of every boat of the replaced list is unresolvable (the search of
\* toggle_valve finds nothing) and no boat made afterwards carries it.
C21_ReplacedIdsRetired ==
    \A i \in last.retired :
        /\ Matches(boats, i) = {}
        /\ \A t \in ThreadIds :
              threads[t].pc \in {"generate", "increment", "store"} =>
                 i \notin FrameIds(threads[t].f)

====
